---- MODULE Spec2Model ----
(***************************************************************************)
(* PlugInMgr (src/PluginMgr/__init__.py): a plugin directory is scanned    *)
(* with a glob, every match is imported with importlib and recorded in a   *)
(* catalog that get_plugin / has / get read.                               *)
(*                                                                         *)
(* Strings are sequences of one-character strings, so that glob matching,  *)
(* os.path.split and os.path.splitext are computed character by character. *)
(* Python values are records [t, v, id]: type name, printed value, and 1   *)
(* for an object that has an identity of its own (0 for plain values).     *)
(***************************************************************************)
EXTENDS Integers, Sequences, FiniteSets, TLC

VARIABLES plug_ext, allow_creation, dir_exists, files, sys_path,
          candidate_files, catalog, pc, cfiles, pos, result, hist

vars == <<plug_ext, allow_creation, dir_exists, files, sys_path,
          candidate_files, catalog, pc, cfiles, pos, result, hist>>

(***************************************************************************)
(* Bounds.                                                                 *)
(***************************************************************************)
MaxFiles == 3
MaxCalls == 2

(***************************************************************************)
(* Strings.                                                                *)
(***************************************************************************)
sep == "/"
extsep == "."

EndsWith(s, suffix) ==
    /\ Len(s) >= Len(suffix)
    /\ SubSeq(s, Len(s) - Len(suffix) + 1, Len(s)) = suffix

\* str.rfind with 1-based positions: 0 when c does not occur in s.
rfind(s, c) ==
    LET hits == {i \in 1..Len(s) : s[i] = c}
    IN  IF hits = {} THEN 0 ELSE CHOOSE i \in hits : \A j \in hits : j <= i

\* the plugin directory as pathlib prints it, and the paths below it
plugin_dir == <<"/", "P">>
JoinPath(name) == plugin_dir \o <<sep>> \o name

\* os.path.split: <<head, tail>> around the last separator
os_path_split(p) ==
    LET i == rfind(p, sep)
        head == SubSeq(p, 1, i)
        tail == SubSeq(p, i + 1, Len(p))
        stripped == IF \A j \in 1..Len(head) : head[j] = sep
                    THEN head
                    ELSE SubSeq(head, 1,
                           CHOOSE k \in 1..Len(head) :
                               /\ head[k] # sep
                               /\ \A j \in (k+1)..Len(head) : head[j] = sep)
    IN  <<stripped, tail>>

\* os.path.splitext: the extension starts at the last dot, unless only dots
\* precede that dot in the file name
os_path_splitext(p) ==
    LET sepIndex == rfind(p, sep)
        dotIndex == rfind(p, extsep)
    IN  IF /\ dotIndex > sepIndex
           /\ \E filenameIndex \in (sepIndex + 1)..(dotIndex - 1) :
                  p[filenameIndex] # extsep
        THEN <<SubSeq(p, 1, dotIndex - 1), SubSeq(p, dotIndex, Len(p))>>
        ELSE <<p, <<>> >>

\* fnmatch of a whole name against a pattern: * is any run of characters,
\* ? is any one character, every other character is itself
RECURSIVE fnmatch(_, _)
fnmatch(name, pat) ==
    IF pat = <<>> THEN name = <<>>
    ELSE IF Head(pat) = "*"
         THEN \/ fnmatch(name, Tail(pat))
              \/ (name # <<>> /\ fnmatch(Tail(name), pat))
    ELSE IF Head(pat) = "?"
         THEN name # <<>> /\ fnmatch(Tail(name), Tail(pat))
    ELSE /\ name # <<>>
         /\ Head(name) = Head(pat)
         /\ fnmatch(Tail(name), Tail(pat))

\* "*{}".format(self.plug_ext)
GlobPattern(ext) == <<"*">> \o ext

(***************************************************************************)
(* Python values.                                                          *)
(***************************************************************************)
PyVal(t, v) == [t |-> t, v |-> v, id |-> 0]
PyNone == PyVal("NoneType", <<>>)
PyTrue == PyVal("bool", <<"1">>)
PyFalse == PyVal("bool", <<"0">>)
PyBool(b) == IF b THEN PyTrue ELSE PyFalse
PyInt42 == PyVal("int", <<"4", "2">>)
PyIntMinus1 == PyVal("int", <<"-", "1">>)
PyStr(s) == PyVal("str", s)
PyModule(name) == [t |-> "module", v |-> name, id |-> 1]

\* truth value of an object in an if statement
Truthy(x) ==
    CASE x.t = "NoneType" -> FALSE
      [] x.t = "bool" -> x = PyTrue
      [] x.t = "int" -> x.v # <<"0">>
      [] x.t = "str" -> x.v # <<>>
      [] OTHER -> TRUE

(***************************************************************************)
(* The files of the plugin directory.  The directory is the set of its     *)
(* file names; what a file holds is read when the file is imported, and is *)
(* described by what importing it does: exec is "ok" or the exception its  *)
(* top-level code raises, dir is "ok" or the exception a module-level      *)
(* __dir__ raises when the module is introspected, binds are the names the *)
(* text binds.                                                             *)
(***************************************************************************)
NoBinds == [a \in {} |-> PyNone]
TextValue == [exec |-> "ok", dir |-> "ok", binds |-> [a \in {"VALUE"} |-> PyInt42]]
TextPlain == [exec |-> "ok", dir |-> "ok", binds |-> NoBinds]
TextRaisesValueError == [exec |-> "ValueError", dir |-> "ok", binds |-> NoBinds]
TextRaisesAttributeError == [exec |-> "AttributeError", dir |-> "ok", binds |-> NoBinds]
TextBadDir == [exec |-> "ok", dir |-> "ValueError", binds |-> NoBinds]
Texts == {TextValue, TextPlain, TextRaisesValueError, TextRaisesAttributeError,
          TextBadDir}

a_py == <<"a", ".", "p", "y">>
dot_py == <<".", "p", "y">>
dot_py_py == <<".", "p", "y", ".", "p", "y">>
a_txt == <<"a", ".", "t", "x", "t">>
FileNames == {a_py, dot_py, dot_py_py, a_txt}

ext_py == <<".", "p", "y">>
ext_pq == <<".", "p", "?">>
ext_txt == <<".", "t", "x", "t">>
Extensions == {ext_py, ext_pq, ext_txt}

\* importlib's source suffix: spec_from_file_location finds a loader only
\* for a location that ends with it
SOURCE_SUFFIX == <<".", "p", "y">>

NoFile == <<>>
NoResult == [op |-> "none", outcome |-> "none", value |-> PyNone,
             exc |-> "none", file |-> NoFile, args |-> <<>>]
Return(op, args, value) ==
    [op |-> op, outcome |-> "return", value |-> value,
     exc |-> "none", file |-> NoFile, args |-> args]
Raise(op, args, exc, file) ==
    [op |-> op, outcome |-> "raise", value |-> PyNone,
     exc |-> exc, file |-> file, args |-> args]

(***************************************************************************)
(* Loading one file.                                                       *)
(***************************************************************************)
NoModule == PyModule(<<>>)
NoText == TextPlain

Loaded(module, text) ==
    [outcome |-> "return", exc |-> "none", file |-> NoFile,
     module |-> module, text |-> text]
LoadRaises(exc, file) ==
    [outcome |-> "raise", exc |-> exc, file |-> file,
     module |-> NoModule, text |-> NoText]

\* get_installed_config(config_file) against the directory as it is now,
\* text being what the file holds.
\* For a location without the source suffix spec_from_file_location returns
\* None and module_from_spec(None) raises AttributeError.
get_installed_config(config_file, text) ==
    LET config_path == JoinPath(config_file)
    IN  IF ~(dir_exists /\ config_file \in files)
        THEN LoadRaises("FileNotFoundError", config_path)
        ELSE IF ~EndsWith(config_path, SOURCE_SUFFIX)
        THEN LoadRaises("AttributeError", NoFile)
        ELSE IF text.exec # "ok"
        THEN LoadRaises(text.exec, NoFile)
        ELSE Loaded(PyModule(config_file), text)

\* dict(inspect.getmembers(module)): the names the text binds and the names
\* importlib binds in every module (of these __name__, __file__ and __doc__
\* are kept; the load key is the file name with its extension)
ModuleNames == {"__name__", "__file__", "__doc__"}
getmembers(module, text) ==
    [a \in DOMAIN text.binds \cup ModuleNames |->
        CASE a = "__name__" -> PyStr(module.v)
          [] a = "__file__" -> PyStr(JoinPath(module.v))
          [] a = "__doc__" -> PyNone
          [] OTHER -> text.binds[a]]

\* LoopBody with the catalog entry made before the load is known to have
\* worked
LoopBody_commit_first(x, cat, text) ==
    LET base_filename == os_path_split(x)[2]
        load == get_installed_config(base_filename, text)
        key == os_path_splitext(base_filename)[1]
        members == IF load.outcome = "return" /\ load.text.dir = "ok"
                   THEN getmembers(load.module, load.text)
                   ELSE NoBinds
        written == [k \in DOMAIN cat \cup {key} |->
                      IF k = key THEN <<load.module, members>> ELSE cat[k]]
    IN  IF load.outcome = "raise"
        THEN IF load.exc = "AttributeError"
             THEN [end |-> "raise", exc |-> "ImportError",
                   file |-> base_filename, catalog |-> written]
             ELSE [end |-> "raise", exc |-> load.exc,
                   file |-> load.file, catalog |-> written]
        ELSE IF load.text.dir # "ok"
        THEN IF load.text.dir = "AttributeError"
             THEN [end |-> "raise", exc |-> "ImportError",
                   file |-> base_filename, catalog |-> written]
             ELSE [end |-> "raise", exc |-> load.text.dir,
                   file |-> NoFile, catalog |-> written]
        ELSE [end |-> "next", exc |-> "none", file |-> NoFile,
              catalog |-> written]

\* the body of the for loop for one path x: the catalog it leaves and how
\* it ends ("next" to go on with the loop, or the exception that leaves
\* findcandidate_files)
LoopBody(x, cat, text) ==
    LET base_filename == os_path_split(x)[2]
        load == get_installed_config(base_filename, text)
        key == os_path_splitext(base_filename)[1]
    IN  IF load.outcome = "raise"
        THEN IF load.exc = "AttributeError"
             THEN [end |-> "raise", exc |-> "ImportError",
                   file |-> base_filename, catalog |-> cat]
             ELSE [end |-> "raise", exc |-> load.exc,
                   file |-> load.file, catalog |-> cat]
        ELSE IF load.text.dir # "ok"
        THEN IF load.text.dir = "AttributeError"
             THEN [end |-> "raise", exc |-> "ImportError",
                   file |-> base_filename, catalog |-> cat]
             ELSE [end |-> "raise", exc |-> load.text.dir,
                   file |-> NoFile, catalog |-> cat]
        ELSE [end |-> "next", exc |-> "none", file |-> NoFile,
              catalog |->
                [k \in DOMAIN cat \cup {key} |->
                    IF k = key
                    THEN <<load.module, getmembers(load.module, load.text)>>
                    ELSE cat[k]]]

(***************************************************************************)
(* The query API, as functions of the catalog.                             *)
(***************************************************************************)
\* has with the unknown plugin answered as the docstring words it
has_collapsed(cat, plugin_name, object_name) ==
    PyBool(/\ plugin_name \in DOMAIN cat
           /\ object_name \in DOMAIN cat[plugin_name][2])

\* get with the test of the commented line 215 in place of the call of has
get_subscript(cat, plugin_name, object_name, default_value) ==
    IF plugin_name \notin DOMAIN cat
    THEN Raise("get", <<plugin_name, object_name, default_value>>,
               "KeyError", NoFile)
    ELSE IF object_name \in DOMAIN cat[plugin_name][2]
    THEN Return("get", <<plugin_name, object_name, default_value>>,
                cat[plugin_name][2][object_name])
    ELSE Return("get", <<plugin_name, object_name, default_value>>,
                default_value)

get_plugin(cat, plugin_name) ==
    IF plugin_name \in DOMAIN cat THEN cat[plugin_name][1] ELSE PyNone

has(cat, plugin_name, object_name) ==
    IF plugin_name \in DOMAIN cat
    THEN PyBool(object_name \in DOMAIN cat[plugin_name][2])
    ELSE PyNone

\* the subscripts of line 217 raise KeyError when a key is missing
get(cat, plugin_name, object_name, default_value) ==
    IF Truthy(has(cat, plugin_name, object_name))
    THEN IF plugin_name \in DOMAIN cat
            /\ object_name \in DOMAIN cat[plugin_name][2]
         THEN Return("get", <<plugin_name, object_name, default_value>>,
                     cat[plugin_name][2][object_name])
         ELSE Raise("get", <<plugin_name, object_name, default_value>>,
                    "KeyError", NoFile)
    ELSE Return("get", <<plugin_name, object_name, default_value>>,
                default_value)

(***************************************************************************)
(* State.  hist records what the program does not keep: whether the        *)
(* directory existed at the last listing, whether it is unchanged since    *)
(* that listing (clean), how many discoveries in a row have returned       *)
(* while it stayed unchanged (runs), and the catalog's keys after the      *)
(* first of those (keys1).                                                 *)
(***************************************************************************)
NoCatalog == [k \in {} |-> <<NoModule, NoBinds>>]

Init ==
    /\ plug_ext \in Extensions
    /\ allow_creation \in BOOLEAN
    \* __init__: the directory is created when it is absent and
    \* allow_creation is set
    /\ \E existed \in BOOLEAN : dir_exists = (existed \/ allow_creation)
    /\ files = {}
    /\ sys_path = <<>>
    /\ candidate_files = <<>>
    /\ catalog = NoCatalog
    /\ pc = "idle"
    /\ cfiles = <<>>
    /\ pos = 0
    /\ result = NoResult
    /\ hist = [listed_exists |-> TRUE, clean |-> FALSE, runs |-> 0,
               keys1 |-> {}]

(***************************************************************************)
(* The file system around the manager.                                     *)
(***************************************************************************)
Touched == [hist EXCEPT !.clean = FALSE, !.runs = 0, !.keys1 = {}]

EnvCreate(name) ==
    /\ dir_exists
    /\ name \notin files
    /\ Cardinality(files) < MaxFiles
    /\ files' = files \cup {name}
    /\ hist' = Touched
    /\ UNCHANGED <<plug_ext, allow_creation, dir_exists, sys_path,
                   candidate_files, catalog, pc, cfiles, pos, result>>

EnvRemove(name) ==
    /\ dir_exists
    /\ name \in files
    /\ files' = files \ {name}
    /\ hist' = Touched
    /\ UNCHANGED <<plug_ext, allow_creation, dir_exists, sys_path,
                   candidate_files, catalog, pc, cfiles, pos, result>>

EnvMkdir ==
    /\ ~dir_exists
    /\ dir_exists' = TRUE
    /\ hist' = Touched
    /\ UNCHANGED <<plug_ext, allow_creation, files, sys_path,
                   candidate_files, catalog, pc, cfiles, pos, result>>

EnvRmdir ==
    /\ dir_exists
    /\ files = {}
    /\ dir_exists' = FALSE
    /\ hist' = Touched
    /\ UNCHANGED <<plug_ext, allow_creation, files, sys_path,
                   candidate_files, catalog, pc, cfiles, pos, result>>

(***************************************************************************)
(* findcandidate_files.                                                    *)
(***************************************************************************)
Orderings(S) ==
    {s \in [1..Cardinality(S) -> S] :
        \A i, j \in 1..Cardinality(S) : s[i] = s[j] => i = j}

\* self.plugin_dir.glob(pattern): the entries of the directory whose names
\* match, in the order the directory scan gives them; no entry for a
\* directory that does not exist
glob(pattern) ==
    IF dir_exists
    THEN LET names == {n \in files : fnmatch(n, pattern)}
         IN  {[i \in DOMAIN s |-> JoinPath(s[i])] : s \in Orderings(names)}
    ELSE {<<>>}

\* DiscoverBegin with a check of the directory before the listing
DiscoverBegin_checked ==
    /\ pc = "idle"
    /\ Len(sys_path) < MaxCalls
    /\ sys_path' = Append(sys_path, plugin_dir)
    /\ cfiles' \in glob(GlobPattern(plug_ext))
    /\ candidate_files' = <<>>
    /\ pos' = 0
    /\ IF dir_exists
       THEN pc' = "loop" /\ result' = NoResult
       ELSE /\ pc' = "idle"
            /\ result' = Raise("findcandidate_files", <<>>,
                               "DirectoryMissing", plugin_dir)
    /\ hist' = [hist EXCEPT
                  !.listed_exists = dir_exists,
                  !.clean = TRUE]
    /\ UNCHANGED <<plug_ext, allow_creation, dir_exists, files, catalog>>

\* DiscoverBegin with the catalog rebuilt by every call
DiscoverBegin_clears_catalog ==
    /\ pc = "idle"
    /\ Len(sys_path) < MaxCalls
    /\ sys_path' = Append(sys_path, plugin_dir)
    /\ cfiles' \in glob(GlobPattern(plug_ext))
    /\ candidate_files' = <<>>
    /\ catalog' = NoCatalog
    /\ pos' = 0
    /\ pc' = "loop"
    /\ result' = NoResult
    /\ hist' = [hist EXCEPT
                  !.listed_exists = dir_exists,
                  !.clean = TRUE]
    /\ UNCHANGED <<plug_ext, allow_creation, dir_exists, files>>

\* lines 148-150: the search path grows, the directory is listed, the
\* candidate list is emptied
DiscoverBegin ==
    /\ pc = "idle"
    /\ Len(sys_path) < MaxCalls
    /\ sys_path' = Append(sys_path, plugin_dir)
    /\ cfiles' \in glob(GlobPattern(plug_ext))
    /\ candidate_files' = <<>>
    /\ pos' = 0
    /\ pc' = "loop"
    /\ result' = NoResult
    /\ hist' = [hist EXCEPT
                  !.listed_exists = dir_exists,
                  !.clean = TRUE]
    /\ UNCHANGED <<plug_ext, allow_creation, dir_exists, files, catalog>>

\* DiscoverStep with the path recorded only once its file has loaded
DiscoverStep_append_last(text) ==
    /\ pc = "loop"
    /\ pos < Len(cfiles)
    /\ LET x == cfiles[pos + 1]
           body == LoopBody(x, catalog, text)
       IN  /\ catalog' = body.catalog
           /\ IF body.end = "next"
              THEN /\ pos' = pos + 1
                   /\ candidate_files' = Append(candidate_files, x)
                   /\ UNCHANGED <<pc, result, hist>>
              ELSE /\ pc' = "idle"
                   /\ result' = Raise("findcandidate_files", <<>>,
                                      body.exc, body.file)
                   /\ hist' = Touched
                   /\ UNCHANGED <<pos, candidate_files>>
    /\ UNCHANGED <<plug_ext, allow_creation, dir_exists, files, sys_path,
                   cfiles>>

\* lines 151-163: one pass of the loop, text being what the file holds
DiscoverStep(text) ==
    /\ pc = "loop"
    /\ pos < Len(cfiles)
    /\ LET x == cfiles[pos + 1]
           body == LoopBody(x, catalog, text)
       IN  /\ candidate_files' = Append(candidate_files, x)
           /\ catalog' = body.catalog
           /\ IF body.end = "next"
              THEN /\ pos' = pos + 1
                   /\ UNCHANGED <<pc, result, hist>>
              ELSE /\ pc' = "idle"
                   /\ result' = Raise("findcandidate_files", <<>>,
                                      body.exc, body.file)
                   /\ hist' = Touched
                   /\ UNCHANGED pos
    /\ UNCHANGED <<plug_ext, allow_creation, dir_exists, files, sys_path,
                   cfiles>>

\* the loop is exhausted and findcandidate_files returns
DiscoverReturn ==
    /\ pc = "loop"
    /\ pos = Len(cfiles)
    /\ pc' = "idle"
    /\ result' = Return("findcandidate_files", <<>>, PyNone)
    /\ hist' = IF hist.clean
               THEN [hist EXCEPT !.runs = @ + 1,
                                 !.keys1 = IF hist.runs = 0
                                           THEN DOMAIN catalog ELSE @]
               ELSE Touched
    /\ UNCHANGED <<plug_ext, allow_creation, dir_exists, files, sys_path,
                   candidate_files, catalog, cfiles, pos>>

(***************************************************************************)
(* The queries.                                                            *)
(***************************************************************************)
PluginNames == {<<"a">>, <<"g">>}
ObjectNames == {"VALUE"}
Defaults == {PyNone, PyIntMinus1}

GetPlugin(plugin_name) ==
    /\ pc = "idle"
    /\ result' = Return("get_plugin", <<plugin_name>>,
                        get_plugin(catalog, plugin_name))
    /\ UNCHANGED <<plug_ext, allow_creation, dir_exists, files, sys_path,
                   candidate_files, catalog, pc, cfiles, pos, hist>>

Has(plugin_name, object_name) ==
    /\ pc = "idle"
    /\ result' = Return("has", <<plugin_name, object_name>>,
                        has(catalog, plugin_name, object_name))
    /\ UNCHANGED <<plug_ext, allow_creation, dir_exists, files, sys_path,
                   candidate_files, catalog, pc, cfiles, pos, hist>>

Get(plugin_name, object_name, default_value) ==
    /\ pc = "idle"
    /\ result' = get(catalog, plugin_name, object_name, default_value)
    /\ UNCHANGED <<plug_ext, allow_creation, dir_exists, files, sys_path,
                   candidate_files, catalog, pc, cfiles, pos, hist>>

Env ==
    \/ \E name \in FileNames : EnvCreate(name)
    \/ \E name \in FileNames : EnvRemove(name)
    \/ EnvMkdir
    \/ EnvRmdir

Discover ==
    \/ DiscoverBegin
    \/ \E text \in Texts : DiscoverStep(text)
    \/ DiscoverReturn

Query ==
    \/ \E plugin_name \in PluginNames : GetPlugin(plugin_name)
    \/ \E plugin_name \in PluginNames, object_name \in ObjectNames :
           Has(plugin_name, object_name)
    \/ \E plugin_name \in PluginNames, object_name \in ObjectNames,
          default_value \in Defaults :
           Get(plugin_name, object_name, default_value)

Next == Env \/ Discover \/ Query

Spec == Init /\ [][Next]_vars

(***************************************************************************)
(* Vocabulary of the properties.                                           *)
(***************************************************************************)
\* findcandidate_files has ended and nothing has been called since
Finished == pc = "idle" /\ result.op = "findcandidate_files"
Returned == Finished /\ result.outcome = "return"
Aborted == Finished /\ result.outcome = "raise"

BaseName(path) == os_path_split(path)[2]
Key(path) == os_path_splitext(BaseName(path))[1]
\* a name without the configured extension at its end
StripSuffix(name, ext) == SubSeq(name, 1, Len(name) - Len(ext))
Range(seq) == {seq[i] : i \in DOMAIN seq}
Matching == {JoinPath(n) : n \in {m \in files : fnmatch(m, GlobPattern(plug_ext))}}

C2_GetDefault ==
    result.op = "get" =>
        LET id == result.args[1]
            attr == result.args[2]
            default == result.args[3]
        IN  /\ result.outcome = "return"
            /\ result.value =
                 IF id \in DOMAIN catalog /\ attr \in DOMAIN catalog[id][2]
                 THEN catalog[id][2][attr]
                 ELSE default

\* get returned the default for a known plugin that lacks the attribute
C2_Witness ==
    /\ result.op = "get"
    /\ result.args[1] \in DOMAIN catalog
    /\ result.args[2] \notin DOMAIN catalog[result.args[1]][2]
    /\ result.args[3] = PyIntMinus1
    /\ result.value = PyIntMinus1

(***************************************************************************)
(* C3: a first discovery over a directory whose files all end with the     *)
(* configured extension, and that returns, leaves as catalog keys exactly  *)
(* the file names with the configured extension removed.                   *)
(***************************************************************************)
C3_Original ==
    (/\ Returned
     /\ Len(sys_path) = 1
     /\ hist.clean
     /\ \A n \in files : EndsWith(n, plug_ext))
    => DOMAIN catalog = {StripSuffix(n, plug_ext) : n \in files}

(***************************************************************************)
(* C4: when a candidate fails to load the call ends with an error, the     *)
(* catalog is left as the candidates before it made it (their entries are  *)
(* there, none is written for the failing one), the failing candidate is   *)
(* the last one recorded, and the catalog does not change until the next   *)
(* discovery.                                                              *)
(***************************************************************************)
C4_AbortKeepsPrefix ==
    [][/\ (pc = "loop" /\ result'.outcome = "raise") =>
              /\ pc' = "idle"
              /\ catalog' = catalog
              /\ \A i \in 1..pos : Key(cfiles[i]) \in DOMAIN catalog'
              /\ pos' = pos
              /\ candidate_files' = SubSeq(cfiles, 1, pos + 1)
       /\ (pc = "loop" /\ pc' = "loop") => result'.outcome # "raise"
       /\ pc = "idle" => catalog' = catalog]_vars

\* the second of three candidates failed: the first is in the catalog, the
\* third was never recorded
C4_Witness ==
    /\ Aborted
    /\ pos = 1
    /\ Len(cfiles) = 3
    /\ Len(candidate_files) = 2
    /\ Key(cfiles[1]) \in DOMAIN catalog

(***************************************************************************)
(* C5: every discovery failure is a load error that names the file that    *)
(* failed.                                                                 *)
(***************************************************************************)
C5_Original ==
    Aborted =>
        /\ result.exc = "ImportError"
        /\ result.file \in {cfiles[pos + 1], BaseName(cfiles[pos + 1])}

(***************************************************************************)
(* C6: two discoveries in a row over an unchanged directory of N loadable  *)
(* files leave the same catalog keys, N of them.                           *)
(***************************************************************************)
C6_Original ==
    (/\ Returned
     /\ hist.runs = 2
     /\ Len(sys_path) = 2
     /\ \A n \in files : EndsWith(n, plug_ext))
    => /\ DOMAIN catalog = hist.keys1
       /\ Cardinality(DOMAIN catalog) = Cardinality(files)

C8_Original ==
    /\ \A i \in DOMAIN candidate_files :
           EndsWith(candidate_files[i], plug_ext)
    /\ \A k \in DOMAIN catalog : EndsWith(catalog[k][1].v, plug_ext)

(***************************************************************************)
(* C9: after every discovery, returned or aborted, candidate_files is the  *)
(* list of the matching files of that call's listing.                      *)
(***************************************************************************)
C9_Original ==
    Finished =>
        /\ candidate_files = cfiles
        /\ hist.clean => Range(cfiles) = Matching

(***************************************************************************)
(* C9 as amended: after a discovery that returned, candidate_files is the  *)
(* list of the matching files of that call's listing; after one that       *)
(* aborted on the k-th candidate it is the first k entries of that list.   *)
(* Either way it holds nothing of an earlier call.                         *)
(***************************************************************************)
C9_CandidatesArePrefix ==
    /\ pc = "loop" => candidate_files = SubSeq(cfiles, 1, pos)
    /\ Returned =>
           /\ candidate_files = cfiles
           /\ hist.clean => Range(cfiles) = Matching
    /\ Aborted =>
           /\ pos < Len(cfiles)
           /\ candidate_files = SubSeq(cfiles, 1, pos + 1)

\* a second discovery aborted on its first candidate with more to come,
\* while the catalog still holds a plugin whose file is gone
C9_Witness ==
    /\ Aborted
    /\ Len(sys_path) = 2
    /\ pos = 0
    /\ Len(cfiles) >= 2
    /\ \E k \in DOMAIN catalog : catalog[k][1].v \notin files

(***************************************************************************)
(* C10: the catalog's key set never shrinks, and get_plugin, has and get   *)
(* leave the catalog and candidate_files as they are.                      *)
(***************************************************************************)
C10_CatalogOnlyGrows ==
    [][/\ DOMAIN catalog \subseteq DOMAIN catalog'
       /\ (result'.op \in {"get_plugin", "has", "get"} /\ result' # result)
              => UNCHANGED <<catalog, candidate_files>>]_vars

\* after a second discovery that returned, a plugin whose file has been
\* removed is still in the catalog and get_plugin still answers for it
C10_Witness ==
    /\ Len(sys_path) = 2
    /\ pc = "idle"
    /\ hist.runs = 1
    /\ result.op = "get_plugin"
    /\ result.value.t = "module"
    /\ result.value.v \notin files

====
